---- MODULE Spec2Model ----
(***************************************************************************)
(* The webview-side state controller of the notebook front-end:            *)
(* MainStateController (src/unnamed/part_001) and its subclass             *)
(* NativeEditorStateController (src/unnamed/part_000).                     *)
(*                                                                         *)
(* JavaScript values are modelled as follows.                              *)
(*   - an array is a sequence; `undefined` in its place is Undefined;      *)
(*   - a string is a sequence of one-character strings;                    *)
(*   - a cell view-model object is a record with a field oid, its object   *)
(*     identity: two records with the same oid are the same object, so an  *)
(*     assignment to a field of the object (updateOrAdd, line 769) is      *)
(*     applied to every place that holds the object (replaceObject);       *)
(*   - this.state is the record state; props.setState(newState, callback)  *)
(*     belongs to the host, which runs the callback either inside the call *)
(*     (sync) or, all of them in order, when the running handler has       *)
(*     returned and before the next one is called;                         *)
(*   - a TypeError thrown in a handler ends the handler: what it did       *)
(*     before the throw stays done.                                        *)
(***************************************************************************)
EXTENDS Integers, Sequences, FiniteSets, TLC

VARIABLES
    state,      \* this.state, the part of IMainState the handlers below use
    steps,      \* how many handlers have been called
    posted,     \* the messages the last handler sent through the post office
    result,     \* what the last handleMessage returned ("true", "false", "threw"), or "none"
    props,      \* props.testMode, props.defaultEditable, and which class was constructed
    settings,   \* getSettings(): showCellInputCode, collapseCellInputCodeByDefault
    editor,     \* the IpynbEditor of the extension host and its messages to the webview
    monacoIdToCellId,   \* this.monacoIdToCellId: the cell id each editor model is mapped to
    postOffice, \* this.postOffice: its handlers, and what the controller has done with it
    last        \* history: the last handler called, its arguments and the state it started in

vars == <<state, steps, posted, result, props, settings, editor, monacoIdToCellId,
          postOffice, last>>

----------------------------------------------------------------------------
(* Bounds of the model *)

\* the handler calls of a run of Spec
MaxSteps == 2
\* the handler calls of a run of SpecStack, after the calls that fill the undo stack
MaxStackSteps == 3
\* the most cells one LoadAllCells message carries
MaxLoad == 2
\* the execution counts a cell arrives with are 0 (none) .. MaxCount
MaxCount == 1

(* Program constants *)

stackLimit == 10

----------------------------------------------------------------------------
(* JavaScript values *)

\* `undefined` where an array of view-models is expected: no array equals it
Undefined == <<[undefined |-> TRUE]>>
\* no payload, or no argument
NoPayload == [none |-> TRUE]

Min(a, b) == IF a < b THEN a ELSE b
Max(a, b) == IF a > b THEN a ELSE b

Last(s) == s[Len(s)]
Front(s) == SubSeq(s, 1, Len(s) - 1)

RECURSIVE SelectIndex(_, _, _)
\* Array.prototype.findIndex for the view-models equal to one of `hits`: 0 when there is none
SelectIndex(s, hits, i) ==
    IF i > Len(s) THEN 0
    ELSE IF s[i] \in hits THEN i
    ELSE SelectIndex(s, hits, i + 1)

\* strings: "\n" separates lines
NL == "\n"

\* text.split('\n', 1)[0]
firstLineOf(t) ==
    LET breaks == {i \in 1..Len(t) : t[i] = NL}
    IN  IF breaks = {} THEN t
        ELSE SubSeq(t, 1, (CHOOSE i \in breaks : \A j \in breaks : i <= j) - 1)

\* text.split('\n').length
lineCount(t) == 1 + Cardinality({i \in 1..Len(t) : t[i] = NL})

\* the text after the first line (empty when there is one line)
restLines(t) ==
    LET n == Len(firstLineOf(t))
    IN  IF n + 1 >= Len(t) THEN <<>> ELSE SubSeq(t, n + 2, Len(t))

startsWith(t, p) == Len(t) >= Len(p) /\ SubSeq(t, 1, Len(p)) = p

\* the cell marker "#%%" and the markdown marker "#%%[markdown]" of CellMatcher
CellMarker == <<"#", "%", "%">>
MarkdownMarker == CellMarker \o <<"[", "m", "d", "]">>

----------------------------------------------------------------------------
(* Cells and view-models *)

EditCellId == "edit"

\* extractInputText (mainState.ts): the source without a leading bare cell marker line
extractInputText(cell) ==
    IF firstLineOf(cell.source) = CellMarker THEN restLines(cell.source) ELSE cell.source

\* createCellVM (mainState.ts): a new view-model object for `cell`
createCellVM(cell, editable, oid) ==
    LET inputText == IF cell.cell_type = "code" THEN extractInputText(cell) ELSE <<>>
        inputLinesCount == IF inputText # <<>> THEN lineCount(inputText) ELSE 0
    IN  [oid |-> oid,
         cell |-> cell,
         editable |-> editable,
         inputBlockOpen |-> TRUE,
         inputBlockShow |-> TRUE,
         inputBlockText |-> inputText,
         inputBlockCollapseNeeded |-> inputLinesCount > 1,
         directInput |-> FALSE]

----------------------------------------------------------------------------
(* Object identity *)

listOids(l) == IF l = Undefined THEN {} ELSE {l[i].oid : i \in 1..Len(l)}
stackOids(s) == UNION {listOids(s[i]) : i \in 1..Len(s)}
recordOids(r) ==
    (IF "cellVMs" \in DOMAIN r THEN listOids(r.cellVMs) ELSE {})
    \cup (IF "undoStack" \in DOMAIN r THEN stackOids(r.undoStack) ELSE {})
    \cup (IF "redoStack" \in DOMAIN r THEN stackOids(r.redoStack) ELSE {})

\* the view-model objects reachable from this.state and from the callbacks not yet run
liveOids(ctx) == recordOids(ctx.st) \cup UNION {recordOids(ctx.pend[i]) : i \in 1..Len(ctx.pend)}

\* the identity of a newly allocated object: one no live object has
freshOid(used) == CHOOSE n \in 0..Cardinality(used) : n \notin used /\ \A m \in 0..(n - 1) : m \in used

replaceInList(l, vm) ==
    IF l = Undefined THEN l
    ELSE [i \in 1..Len(l) |-> IF l[i].oid = vm.oid THEN vm ELSE l[i]]

replaceInRecord(r, vm) ==
    [k \in DOMAIN r |->
        IF k = "cellVMs" THEN replaceInList(r[k], vm)
        ELSE IF k \in {"undoStack", "redoStack"}
             THEN [i \in 1..Len(r[k]) |-> replaceInList(r[k][i], vm)]
             ELSE r[k]]

\* an assignment to fields of the object vm.oid: every holder of the object sees vm
replaceObject(ctx, vm) ==
    [ctx EXCEPT !.st = replaceInRecord(@, vm),
                !.pend = [i \in 1..Len(@) |-> replaceInRecord(@[i], vm)]]

----------------------------------------------------------------------------
(* The running handler: ctx.st is this.state as the handler sees it, ctx.pend
   the callbacks the host holds back, ctx.out the messages sent, ctx.thrown
   whether a TypeError has ended the handler, ctx.sync whether the host runs
   setState callbacks inside the call, ctx.ret what handleMessage returns *)

merge(st, newState) == [k \in DOMAIN st |-> IF k \in DOMAIN newState THEN newState[k] ELSE st[k]]

throw(ctx) == [ctx EXCEPT !.thrown = TRUE, !.ret = "threw"]

\* MainStateController.setState
setState(ctx, newState) ==
    IF ctx.thrown THEN ctx
    ELSE IF ctx.sync THEN [ctx EXCEPT !.st = merge(@, newState)]
    ELSE [ctx EXCEPT !.pend = Append(@, newState)]

\* MainStateController.sendMessage
sendMessage(ctx, type, payload) ==
    IF ctx.thrown THEN ctx
    ELSE [ctx EXCEPT !.out = Append(@, [type |-> type, payload |-> payload])]

\* MainStateController.getNonEditCellVMs, on a list
getNonEditCellVMs(cellVMs) == SelectSeq(cellVMs, LAMBDA c : ~c.editable)

cellsOf(cellVMs) == [i \in 1..Len(cellVMs) |-> cellVMs[i].cell]

\* MainStateController.sendInfo
sendInfo(ctx) ==
    IF ctx.thrown THEN ctx
    ELSE IF ctx.st.cellVMs = Undefined THEN throw(ctx)
    ELSE sendMessage(ctx, "SendInfo",
            [visibleCells |-> cellsOf(getNonEditCellVMs(ctx.st.cellVMs)),
             cellCount |-> Len(getNonEditCellVMs(ctx.st.cellVMs)),
             undoCount |-> Len(ctx.st.undoStack),
             redoCount |-> Len(ctx.st.redoStack)])

\* pushStack with the stack cut to its maximum length after the cells are added
pushStackCutAfter(stack, cells) ==
    LET combined == stack \o <<cells>>
    IN  SubSeq(combined, 1, Min(Len(combined), stackLimit))

\* MainStateController.pushStack
pushStack(stack, cells) ==
    LET slicedUndo == SubSeq(stack, 1, Min(Len(stack), stackLimit))
    IN  slicedUndo \o <<cells>>

\* redo that leaves the undo stack as it is
redoKeepUndo(ctx) ==
    LET st == ctx.st
        cells == IF Len(st.redoStack) > 0 THEN Last(st.redoStack) ELSE Undefined
        c1 == sendMessage(ctx, "Redo", NoPayload)
        c2 == setState(c1, [cellVMs |-> cells, undoStack |-> st.undoStack,
                            redoStack |-> Front(st.redoStack), skipNextScroll |-> TRUE])
    IN  sendInfo(c2)

\* MainStateController.redo
redo(ctx) ==
    LET st == ctx.st
        cells == IF Len(st.redoStack) > 0 THEN Last(st.redoStack) ELSE Undefined
        redoStack == Front(st.redoStack)
        undoStack == pushStack(st.undoStack, st.cellVMs)
        c1 == sendMessage(ctx, "Redo", NoPayload)
        c2 == setState(c1, [cellVMs |-> cells, undoStack |-> undoStack,
                            redoStack |-> redoStack, skipNextScroll |-> TRUE])
    IN  sendInfo(c2)

\* MainStateController.undo
undo(ctx) ==
    LET st == ctx.st
        cells == IF Len(st.undoStack) > 0 THEN Last(st.undoStack) ELSE Undefined
        undoStack == Front(st.undoStack)
        redoStack == pushStack(st.redoStack, st.cellVMs)
        c1 == sendMessage(ctx, "Undo", NoPayload)
        c2 == setState(c1, [cellVMs |-> cells, undoStack |-> undoStack,
                            redoStack |-> redoStack, skipNextScroll |-> TRUE])
    IN  sendInfo(c2)

\* deleteCell that removes the first cell with the id only
deleteCellFirstOnly(ctx, cellId) ==
    IF ctx.thrown THEN ctx
    ELSE IF ctx.st.cellVMs = Undefined THEN throw(ctx)
    ELSE IF \E i \in 1..Len(ctx.st.cellVMs) : ctx.st.cellVMs[i].cell.id = cellId
         THEN LET i == CHOOSE i \in 1..Len(ctx.st.cellVMs) :
                          /\ ctx.st.cellVMs[i].cell.id = cellId
                          /\ \A j \in 1..(i - 1) : ctx.st.cellVMs[j].cell.id # cellId
                  c1 == sendMessage(ctx, "DeleteCell", NoPayload)
                  c2 == sendMessage(c1, "RemoveCell", [id |-> cellId])
              IN  setState(c2,
                     [cellVMs |-> SubSeq(ctx.st.cellVMs, 1, i - 1)
                                  \o SubSeq(ctx.st.cellVMs, i + 1, Len(ctx.st.cellVMs)),
                      undoStack |-> pushStack(ctx.st.undoStack, ctx.st.cellVMs),
                      skipNextScroll |-> TRUE])
         ELSE ctx

\* MainStateController.deleteCell
deleteCell(ctx, cellId) ==
    IF ctx.thrown THEN ctx
    ELSE IF ctx.st.cellVMs = Undefined THEN throw(ctx)
    ELSE IF \E i \in 1..Len(ctx.st.cellVMs) : ctx.st.cellVMs[i].cell.id = cellId
         THEN LET c1 == sendMessage(ctx, "DeleteCell", NoPayload)
                  c2 == sendMessage(c1, "RemoveCell", [id |-> cellId])
              IN  setState(c2,
                     [cellVMs |-> SelectSeq(ctx.st.cellVMs, LAMBDA c : c.cell.id # cellId),
                      undoStack |-> pushStack(ctx.st.undoStack, ctx.st.cellVMs),
                      skipNextScroll |-> TRUE])
         ELSE ctx

\* MainStateController.clearAllSilent
clearAllSilent(ctx) ==
    sendInfo(setState(ctx,
        [cellVMs |-> <<>>,
         undoStack |-> pushStack(ctx.st.undoStack, ctx.st.cellVMs),
         skipNextScroll |-> TRUE,
         busy |-> FALSE]))

\* MainStateController.clearAll
clearAll(ctx) == clearAllSilent(sendMessage(ctx, "DeleteAllCells", NoPayload))

----------------------------------------------------------------------------
(* Visibility and collapse state of a view-model *)

SliceLimit == 255

\* the first line of the input with '...', not cut to the limit
collapsedTextNoSlice(cell) ==
    LET newText == extractInputText(cell)
    IN  IF Len(newText) > 0 THEN firstLineOf(newText) \o <<".", ".", ".">> ELSE newText

\* the text of a collapsed input block (part_001 lines 519-524)
collapsedText(cell) ==
    LET newText == extractInputText(cell)
        line == firstLineOf(newText)
    IN  IF Len(newText) > 0
        THEN SubSeq(line, 1, Min(Len(line), SliceLimit)) \o <<".", ".", ".">>
        ELSE newText

\* MainStateController.alterCellVM; a copy it makes is the new object `oid`
baseAlterCellVM(cellVM, visible, expanded, oid) ==
    IF cellVM.cell.cell_type = "code"
    THEN IF cellVM.inputBlockShow = visible /\ cellVM.inputBlockOpen = expanded
         THEN cellVM
         ELSE LET newCellVM == [cellVM EXCEPT !.oid = oid,
                                   !.inputBlockShow = IF cellVM.inputBlockShow # visible THEN visible ELSE @]
              IN  IF cellVM.inputBlockOpen # expanded /\ cellVM.inputBlockCollapseNeeded /\ cellVM.inputBlockShow
                  THEN IF expanded
                       THEN [newCellVM EXCEPT !.inputBlockOpen = TRUE,
                                              !.inputBlockText = extractInputText(cellVM.cell)]
                       ELSE [newCellVM EXCEPT !.inputBlockOpen = FALSE,
                                              !.inputBlockText = collapsedText(cellVM.cell)]
                  ELSE newCellVM
    ELSE cellVM

\* NativeEditorStateController.alterCellVM: assigns to the object it is given
nativeAlterCellVM(cellVM, visible, expanded, oid) ==
    [cellVM EXCEPT !.editable = TRUE,
                   !.inputBlockOpen = TRUE,
                   !.inputBlockText = extractInputText(cellVM.cell)]

\* this.alterCellVM, dispatched on the class constructed
alterCellVM(cellVM, visible, expanded, oid) ==
    IF props.native THEN nativeAlterCellVM(cellVM, visible, expanded, oid)
    ELSE baseAlterCellVM(cellVM, visible, expanded, oid)

\* the effect of this.alterCellVM(cellVM, ...) on the objects: a result that is
\* the object it was given carries the assignments made to it
altered(ctx, cellVM, newVM) == IF newVM.oid = cellVM.oid THEN replaceObject(ctx, newVM) ELSE ctx

\* MainStateController.addCell, called with a cell
addCell(ctx, cell) ==
    IF ctx.thrown THEN ctx
    ELSE LET showInputs == settings.showCellInputCode
             collapseInputs == settings.collapseCellInputCodeByDefault
             oid == freshOid(liveOids(ctx))
             cellVM == alterCellVM(createCellVM(cell, props.defaultEditable, oid),
                                   showInputs, ~collapseInputs, oid)
         IN  IF ctx.st.cellVMs = Undefined THEN throw(ctx)
             ELSE sendInfo(setState(ctx,
                     [cellVMs |-> Append(ctx.st.cellVMs, cellVM),
                      undoStack |-> pushStack(ctx.st.undoStack, ctx.st.cellVMs),
                      redoStack |-> ctx.st.redoStack,
                      skipNextScroll |-> FALSE]))

\* MainStateController.refreshVariables
refreshVariables(ctx, newExecutionCount) ==
    sendMessage(ctx, "GetVariablesRequest",
        [executionCount |-> IF newExecutionCount = NoPayload
                            THEN ctx.st.currentExecutionCount ELSE newExecutionCount.count])

\* MainStateController.updateOrAdd
updateOrAdd(ctx, cell, allowAdd) ==
    IF ctx.thrown THEN ctx
    ELSE IF ctx.st.cellVMs = Undefined THEN throw(ctx)
    ELSE LET cellVMs == ctx.st.cellVMs
             index == SelectIndex(cellVMs,
                         {cellVMs[i] : i \in {j \in 1..Len(cellVMs) :
                             /\ cellVMs[j].cell.id = cell.id
                             /\ cellVMs[j].cell.line = cell.line
                             /\ cellVMs[j].cell.file = cell.file}}, 1)
         IN  IF index >= 1
             THEN LET newExecutionCount ==
                          IF cell.execution_count # 0
                          THEN Max(ctx.st.currentExecutionCount, cell.execution_count)
                          ELSE ctx.st.currentExecutionCount
                      c1 == IF newExecutionCount # ctx.st.currentExecutionCount
                            THEN refreshVariables(ctx, NoPayload) ELSE ctx
                      \* newVMs[index].cell = cell: the object is in the old array too
                      c2 == replaceObject(c1, [cellVMs[index] EXCEPT !.cell = cell])
                  IN  setState(c2, [cellVMs |-> c2.st.cellVMs,
                                    currentExecutionCount |-> newExecutionCount])
             ELSE IF allowAdd THEN addCell(ctx, cell)
             ELSE ctx

\* MainStateController.isCellSupported
isCellSupported(cell) == ~props.testMode \/ cell.cell_type # "messages"

\* MainStateController.finishCell
finishCell(ctx, payload) ==
    IF ctx.thrown \/ payload = NoPayload THEN ctx
    ELSE sendInfo(IF isCellSupported(payload) THEN updateOrAdd(ctx, payload, TRUE) ELSE ctx)

\* MainStateController.startCell
startCell(ctx, payload) ==
    IF ctx.thrown \/ payload = NoPayload THEN ctx
    ELSE IF isCellSupported(payload) THEN updateOrAdd(ctx, payload, TRUE) ELSE ctx

\* MainStateController.updateCell
updateCell(ctx, payload) ==
    IF ctx.thrown \/ payload = NoPayload THEN ctx
    ELSE IF isCellSupported(payload) THEN updateOrAdd(ctx, payload, FALSE) ELSE ctx

RECURSIVE finishCells(_, _)
\* cells.forEach(c => this.finishCell(c))
finishCells(ctx, cells) ==
    IF cells = <<>> THEN ctx ELSE finishCells(finishCell(ctx, Head(cells)), Tail(cells))

\* MainStateController.handleLoadAllCells
handleLoadAllCells(ctx, payload) ==
    IF payload = NoPayload THEN ctx ELSE finishCells(ctx, payload.cells)

\* MainStateController.getAllCells
getAllCells(ctx) ==
    IF ctx.st.cellVMs = Undefined THEN throw(ctx)
    ELSE sendMessage(ctx, "ReturnAllCells", [cells |-> cellsOf(ctx.st.cellVMs)])

RECURSIVE alterEach(_, _, _, _)
\* this.state.cellVMs.map(value => this.alterCellVM(value, visible, expanded))
alterEach(cellVMs, visible, expanded, used) ==
    IF cellVMs = <<>> THEN <<>>
    ELSE LET oid == freshOid(used)
             newVM == alterCellVM(Head(cellVMs), visible, expanded, oid)
         IN  <<newVM>> \o alterEach(Tail(cellVMs), visible, expanded, used \cup {newVM.oid})

RECURSIVE alteredEach(_, _, _)
alteredEach(ctx, cellVMs, newVMs) ==
    IF cellVMs = <<>> THEN ctx
    ELSE alteredEach(altered(ctx, Head(cellVMs), Head(newVMs)), Tail(cellVMs), Tail(newVMs))

\* MainStateController.alterAllCellVMs
alterAllCellVMs(ctx, visible, expanded) ==
    IF ctx.thrown THEN ctx
    ELSE IF ctx.st.cellVMs = Undefined THEN throw(ctx)
    ELSE LET newCells == alterEach(ctx.st.cellVMs, visible, expanded, liveOids(ctx))
             c1 == alteredEach(ctx, ctx.st.cellVMs, newCells)
         IN  setState(c1, [skipNextScroll |-> TRUE, cellVMs |-> newCells])

\* MainStateController.collapseAllSilent
collapseAllSilent(ctx) ==
    IF settings.showCellInputCode THEN alterAllCellVMs(ctx, TRUE, FALSE) ELSE ctx

\* expandAllSilent that does not look at the setting
expandAllSilentAlways(ctx) == alterAllCellVMs(ctx, TRUE, TRUE)

\* MainStateController.expandAllSilent
expandAllSilent(ctx) ==
    IF settings.showCellInputCode THEN alterAllCellVMs(ctx, TRUE, TRUE) ELSE ctx

\* MainStateController.collapseAll
collapseAll(ctx) == collapseAllSilent(sendMessage(ctx, "CollapseAll", NoPayload))

\* MainStateController.expandAll
expandAll(ctx) == expandAllSilent(sendMessage(ctx, "ExpandAll", NoPayload))

\* inputBlockToggled that collapses whatever the input block was
inputBlockToggledCollapse(ctx, id) ==
    IF ctx.thrown THEN ctx
    ELSE IF ctx.st.cellVMs = Undefined THEN throw(ctx)
    ELSE LET cellVMArray == ctx.st.cellVMs
             cellVMIndex == SelectIndex(cellVMArray,
                               {cellVMArray[i] : i \in {j \in 1..Len(cellVMArray) :
                                   cellVMArray[j].cell.id = id}}, 1)
         IN  IF cellVMIndex >= 1
             THEN LET targetCellVM == cellVMArray[cellVMIndex]
                      newVM == alterCellVM(targetCellVM, TRUE, FALSE, freshOid(liveOids(ctx)))
                      c1 == altered(ctx, targetCellVM, newVM)
                  IN  setState(c1, [skipNextScroll |-> TRUE,
                                    cellVMs |-> [c1.st.cellVMs EXCEPT ![cellVMIndex] = newVM]])
             ELSE ctx

\* MainStateController.inputBlockToggled
inputBlockToggled(ctx, id) ==
    IF ctx.thrown THEN ctx
    ELSE IF ctx.st.cellVMs = Undefined THEN throw(ctx)
    ELSE LET cellVMArray == ctx.st.cellVMs
             cellVMIndex == SelectIndex(cellVMArray,
                               {cellVMArray[i] : i \in {j \in 1..Len(cellVMArray) :
                                   cellVMArray[j].cell.id = id}}, 1)
         IN  IF cellVMIndex >= 1
             THEN LET targetCellVM == cellVMArray[cellVMIndex]
                      newVM == alterCellVM(targetCellVM, TRUE, ~targetCellVM.inputBlockOpen,
                                           freshOid(liveOids(ctx)))
                      c1 == altered(ctx, targetCellVM, newVM)
                  IN  setState(c1, [skipNextScroll |-> TRUE,
                                    cellVMs |-> [c1.st.cellVMs EXCEPT ![cellVMIndex] = newVM]])
             ELSE ctx

\* MainStateController.stopBusy
stopBusy(ctx) ==
    IF ctx.thrown THEN ctx
    ELSE IF ctx.st.busy THEN setState(ctx, [busy |-> FALSE]) ELSE ctx

----------------------------------------------------------------------------
(* Input from the edit cell *)

\* the identifiers uuid() hands out
UuidPool == <<"u1", "u2", "u3", "u4", "u5", "u6", "u7", "u8",
              "u9", "u10", "u11", "u12", "u13", "u14", "u15", "u16">>

listIds(l) == IF l = Undefined THEN {} ELSE {l[i].cell.id : i \in 1..Len(l)}
recordIds(r) ==
    (IF "cellVMs" \in DOMAIN r THEN listIds(r.cellVMs) ELSE {})
    \cup (IF "undoStack" \in DOMAIN r THEN UNION {listIds(r.undoStack[i]) : i \in 1..Len(r.undoStack)} ELSE {})
    \cup (IF "redoStack" \in DOMAIN r THEN UNION {listIds(r.redoStack[i]) : i \in 1..Len(r.redoStack)} ELSE {})
liveIds(ctx) == recordIds(ctx.st) \cup UNION {recordIds(ctx.pend[i]) : i \in 1..Len(ctx.pend)}

\* uuid(): an identifier no cell has
uuid(ctx) ==
    UuidPool[CHOOSE n \in 1..Len(UuidPool) :
                /\ UuidPool[n] \notin liveIds(ctx)
                /\ \A m \in 1..(n - 1) : UuidPool[m] \in liveIds(ctx)]

\* CellMatcher.isMarkdown (cellMatcher.ts)
isMarkdown(line) == startsWith(line, MarkdownMarker)

\* generateMarkdownFromCodeLines (common.ts): the lines after the marker line
generateMarkdownFromCodeLines(code) == restLines(code)

\* the edit cell's view-model, this.state.editCellVM: an object of its own
EditCellOid == -1
editCellVM ==
    [oid |-> EditCellOid,
     cell |-> [id |-> EditCellId, file |-> "", line |-> 0, cell_type |-> "code",
               state |-> "editing", execution_count |-> 0, source |-> <<>>],
     editable |-> TRUE,
     inputBlockOpen |-> TRUE,
     inputBlockShow |-> TRUE,
     inputBlockText |-> <<>>,
     inputBlockCollapseNeeded |-> FALSE,
     directInput |-> FALSE]

\* MainStateController.submitInput
submitInput(ctx, code, inputCell) ==
    IF inputCell.cell.id = EditCellId
    THEN LET executing == [inputCell.cell EXCEPT !.state = "executing", !.source = code]
             cell0 == IF isMarkdown(firstLineOf(code))
                      THEN [executing EXCEPT !.cell_type = "markdown",
                                             !.source = generateMarkdownFromCodeLines(code),
                                             !.state = "finished"]
                      ELSE executing
             oid == freshOid(liveOids(ctx))
             collapseInputs == settings.collapseCellInputCodeByDefault
             vm0 == alterCellVM(createCellVM(cell0, props.defaultEditable, oid),
                                TRUE, ~collapseInputs, oid)
             vm1 == IF vm0.cell.id = EditCellId THEN [vm0 EXCEPT !.cell.id = uuid(ctx)] ELSE vm0
             newCell == [vm1 EXCEPT !.directInput = TRUE]
         IN  IF ctx.st.cellVMs = Undefined THEN throw(ctx)
             ELSE LET c1 == setState(ctx,
                             [cellVMs |-> Append(ctx.st.cellVMs, newCell),
                              undoStack |-> pushStack(ctx.st.undoStack, ctx.st.cellVMs),
                              redoStack |-> ctx.st.redoStack,
                              skipNextScroll |-> FALSE,
                              submittedText |-> TRUE])
                  IN  IF newCell.cell.state # "finished"
                      THEN sendMessage(c1, "SubmitNewCell", [code |-> code, id |-> newCell.cell.id])
                      ELSE c1
    ELSE \* inputCell.cell.state = ...: the cell object belongs to this view-model
         LET c1 == replaceObject(ctx, [inputCell EXCEPT !.cell.state = "executing"])
         IN  IF c1.st.cellVMs = Undefined THEN throw(c1)
             ELSE sendMessage(setState(c1, [cellVMs |-> c1.st.cellVMs]),
                              "ReExecuteCell", [code |-> code, id |-> inputCell.cell.id])

----------------------------------------------------------------------------
(* Message dispatch *)

\* the message types MainStateController.handleMessage has a case for
KnownMessages ==
    {"StartCell", "FinishCell", "UpdateCell", "GetAllCells", "ExpandAll", "CollapseAll",
     "DeleteAllCells", "Redo", "Undo", "StartProgress", "StopProgress", "UpdateSettings",
     "Activate", "GetVariablesResponse", "GetVariableValueResponse",
     "LoadOnigasmAssemblyResponse", "LoadTmLanguageResponse", "RestartKernel",
     "StartDebugging", "StopDebugging", "LoadAllCells", "GetCssResponse",
     "GetMonacoThemeResponse", "ScrollToCell"}

\* `return true` or, after the switch, `return false`
returns(ctx, value) == IF ctx.thrown THEN ctx ELSE [ctx EXCEPT !.ret = value]

\* MainStateController.updateSettings, after updateSettings(payload) has replaced
\* the settings `prev` by the payload
updateSettings(ctx, payload, prev) ==
    IF payload = NoPayload THEN ctx
    ELSE IF prev.showCellInputCode # payload.showCellInputCode
         THEN alterAllCellVMs(ctx, payload.showCellInputCode, ~payload.collapseCellInputCodeByDefault)
         ELSE ctx

\* MainStateController.refreshVariable
refreshVariable(ctx, targetVar) == sendMessage(ctx, "GetVariableValueRequest", targetVar)

RECURSIVE refreshEach(_, _)
\* variablesResponse.variables.forEach(this.refreshVariable)
refreshEach(ctx, variables) ==
    IF variables = <<>> THEN ctx
    ELSE refreshEach(refreshVariable(ctx, Head(variables)), Tail(variables))

RECURSIVE findIndexByName(_, _, _)
\* this.state.variables.findIndex(v => v.name === name): 0 when there is none
findIndexByName(variables, name, i) ==
    IF i > Len(variables) THEN 0
    ELSE IF variables[i].name = name THEN i
    ELSE findIndexByName(variables, name, i + 1)

\* the decrement of getVariableValueResponse carried out without Math.max
getVariableValueResponseNoFloor(ctx, payload) ==
    IF ctx.thrown \/ payload = NoPayload THEN ctx
    ELSE IF /\ payload.executionCount # <<>>
            /\ payload.executionCount = <<ctx.st.currentExecutionCount>>
         THEN LET stateVariable == findIndexByName(ctx.st.variables, payload.name, 1)
              IN  IF stateVariable >= 1
                  THEN setState(ctx, [variables |-> [ctx.st.variables EXCEPT ![stateVariable] = payload],
                                      pendingVariableCount |-> ctx.st.pendingVariableCount - 1])
                  ELSE ctx
         ELSE ctx

\* MainStateController.getVariableValueResponse; an executionCount is <<>> when
\* undefined and <<n>> otherwise
getVariableValueResponse(ctx, payload) ==
    IF ctx.thrown \/ payload = NoPayload THEN ctx
    ELSE IF /\ payload.executionCount # <<>>
            /\ payload.executionCount = <<ctx.st.currentExecutionCount>>
         THEN LET stateVariable == findIndexByName(ctx.st.variables, payload.name, 1)
              IN  IF stateVariable >= 1
                  THEN setState(ctx, [variables |-> [ctx.st.variables EXCEPT ![stateVariable] = payload],
                                      pendingVariableCount |->
                                          Max(0, ctx.st.pendingVariableCount - 1)])
                  ELSE ctx
         ELSE ctx

\* getVariablesResponse accepting a response of any execution count
getVariablesResponseAnyCount(ctx, payload) ==
    IF ctx.thrown \/ payload = NoPayload THEN ctx
    ELSE refreshEach(setState(ctx, [variables |-> payload.variables,
                                    pendingVariableCount |-> Len(payload.variables)]),
                     payload.variables)

\* MainStateController.getVariablesResponse
getVariablesResponse(ctx, payload) ==
    IF ctx.thrown \/ payload = NoPayload THEN ctx
    ELSE IF payload.executionCount = <<ctx.st.currentExecutionCount>>
         THEN refreshEach(setState(ctx, [variables |-> payload.variables,
                                         pendingVariableCount |-> Len(payload.variables)]),
                          payload.variables)
         ELSE ctx

\* handleMessage that hands ExpandAll, CollapseAll and DeleteAllCells to the
\* user-facing methods
handleMessageNotSilent(ctx, msg, payload) ==
    CASE msg = "StartCell" -> returns(startCell(ctx, payload), "true")
      [] msg = "FinishCell" -> returns(finishCell(ctx, payload), "true")
      [] msg = "UpdateCell" -> returns(updateCell(ctx, payload), "true")
      [] msg = "GetAllCells" -> returns(getAllCells(ctx), "true")
      [] msg = "ExpandAll" -> returns(expandAll(ctx), "true")
      [] msg = "CollapseAll" -> returns(collapseAll(ctx), "true")
      [] msg = "DeleteAllCells" -> returns(clearAll(ctx), "true")
      [] msg = "Redo" -> returns(redo(ctx), "true")
      [] msg = "Undo" -> returns(undo(ctx), "true")
      [] OTHER -> returns(ctx, "false")

\* MainStateController.handleMessage
baseHandleMessage(ctx, msg, payload) ==
    CASE msg = "StartCell" -> returns(startCell(ctx, payload), "true")
      [] msg = "FinishCell" -> returns(finishCell(ctx, payload), "true")
      [] msg = "UpdateCell" -> returns(updateCell(ctx, payload), "true")
      [] msg = "GetAllCells" -> returns(getAllCells(ctx), "true")
      [] msg = "ExpandAll" -> returns(expandAllSilent(ctx), "true")
      [] msg = "CollapseAll" -> returns(collapseAllSilent(ctx), "true")
      [] msg = "DeleteAllCells" -> returns(clearAllSilent(ctx), "true")
      [] msg = "Redo" -> returns(redo(ctx), "true")
      [] msg = "Undo" -> returns(undo(ctx), "true")
      [] msg = "StartProgress" ->
            returns(IF ~props.testMode THEN setState(ctx, [busy |-> TRUE]) ELSE ctx, "false")
      [] msg = "StopProgress" ->
            returns(IF ~props.testMode THEN setState(ctx, [busy |-> FALSE]) ELSE ctx, "false")
      [] msg = "UpdateSettings" -> returns(updateSettings(ctx, payload, settings), "false")
      [] msg = "RestartKernel" -> returns(setState(ctx, [currentExecutionCount |-> 0]), "false")
      [] msg = "StartDebugging" -> returns(setState(ctx, [debugging |-> TRUE]), "false")
      [] msg = "StopDebugging" -> returns(setState(ctx, [debugging |-> FALSE]), "false")
      [] msg = "LoadAllCells" -> returns(handleLoadAllCells(ctx, payload), "false")
      [] msg = "GetVariablesResponse" -> returns(getVariablesResponse(ctx, payload), "false")
      [] msg = "GetVariableValueResponse" ->
            returns(getVariableValueResponse(ctx, payload), "false")
      \* the remaining cases and the default touch no part of the state kept here
      [] OTHER -> returns(ctx, "false")

\* NativeEditorStateController.handleMessage
nativeHandleMessage(ctx, msg, payload) ==
    LET c1 == baseHandleMessage(ctx, msg, payload)
    IN  CASE msg = "LoadAllCells" -> stopBusy(c1)
          [] msg = "NotebookDirty" -> setState(c1, [dirty |-> TRUE])
          [] msg = "NotebookClean" -> setState(c1, [dirty |-> FALSE])
          [] OTHER -> c1

\* handleMessage of the controller constructed
handleMessage(ctx, msg, payload) ==
    IF props.native THEN nativeHandleMessage(ctx, msg, payload)
    ELSE baseHandleMessage(ctx, msg, payload)

----------------------------------------------------------------------------
(* Editor models *)

\* Map.get: <<>> when the key is not mapped (undefined), <<id>> otherwise
mapGet(map, key) == IF key \in DOMAIN map THEN <<map[key]>> ELSE <<>>

\* Map.set
mapSet(map, key, value) == [k \in DOMAIN map \cup {key} |-> IF k = key THEN value ELSE map[k]]

\* MainStateController.codeChange: the messages it sends
codeChange(ctx, changes, id, modelId) ==
    IF mapGet(monacoIdToCellId, modelId) # <<id>> THEN ctx
    ELSE sendMessage(ctx, "EditCell", [changes |-> changes, id |-> id])

\* MainStateController.codeChange: the map it leaves
codeChangeMap(map, id, modelId) ==
    IF mapGet(map, modelId) # <<id>> THEN mapSet(map, modelId, id) ELSE map

\* MainStateController.readOnlyCodeCreated: the messages it sends
readOnlyCodeCreated(ctx, file, id, monacoId) ==
    IF ctx.thrown THEN ctx
    ELSE IF ctx.st.cellVMs = Undefined THEN throw(ctx)
    ELSE LET found == {i \in 1..Len(ctx.st.cellVMs) : ctx.st.cellVMs[i].cell.id = id}
         IN  IF found = {} THEN ctx
             ELSE LET cell == ctx.st.cellVMs[CHOOSE i \in found : \A j \in found : i <= j]
                  IN  sendMessage(ctx, "AddCell",
                          [fullText |-> extractInputText(cell.cell),
                           currentText |-> cell.inputBlockText,
                           file |-> file,
                           id |-> id])

\* MainStateController.readOnlyCodeCreated: the map it leaves, reached only when
\* the statements before it have not thrown
readOnlyCodeCreatedMap(map, ctx, id, monacoId) ==
    IF ctx.thrown THEN map ELSE mapSet(map, monacoId, id)

\* MainStateController.editableCodeCreated
editableCodeCreated(map, id, monacoId) == mapSet(map, monacoId, id)

\* MainStateController.getCellId
getCellId(map, monacoId) ==
    LET found == mapGet(map, monacoId)
    IN  IF found # <<>> /\ found # <<"">> THEN found[1] ELSE EditCellId

----------------------------------------------------------------------------
(* Focus *)

\* `undefined` where a cell id is expected
NoCellId == "undefined"

\* codeLostFocus that unfocuses whatever cell has the focus
codeLostFocusAlways(ctx, cellId) == setState(ctx, [focusedCell |-> NoCellId])

\* MainStateController.codeLostFocus
codeLostFocus(ctx, cellId) ==
    IF ctx.st.focusedCell = cellId THEN setState(ctx, [focusedCell |-> NoCellId]) ELSE ctx

\* MainStateController.codeGotFocus
codeGotFocus(ctx, cellId) == setState(ctx, [selectedCell |-> cellId, focusedCell |-> cellId])

\* MainStateController.selectCell
selectCell(ctx, cellId, focusedCell) ==
    setState(ctx, [selectedCell |-> cellId, focusedCell |-> focusedCell])

----------------------------------------------------------------------------
(* The post office *)

\* the post office of a controller whose constructor has not run: its handlers,
\* the calls made on it and on the host so far, and whether the timer of the first
\* update is pending
newPostOffice == [handlers |-> {}, log |-> <<>>, timer |-> FALSE]

addHandler(po, handler) ==
    [po EXCEPT !.handlers = @ \cup {handler}, !.log = Append(@, "addHandler")]

removeHandler(po, handler) ==
    [po EXCEPT !.handlers = @ \ {handler}, !.log = Append(@, "removeHandler")]

\* postOffice.sendMessage and postOffice.sendUnsafeMessage
send(po, type) == [po EXCEPT !.log = Append(@, type)]

\* initializeTokenizer(loadOnigasm, loadTmlanguage, tokenizerLoaded) starts the
\* loading and returns a promise: the callbacks that send the load requests run
\* after the constructor
initializeTokenizer(po) == [po EXCEPT !.log = Append(@, "initializeTokenizer")]

\* the callback of the timer has pushed the first state update to the host
firstUpdate(po) == [po EXCEPT !.timer = FALSE, !.log = Append(@, "setState")]

\* a constructor that announces itself before it listens
constructorSendFirst(po, testMode) ==
    LET loading == IF testMode THEN po ELSE initializeTokenizer(po)
        sent == send(send(addHandler(send(loading, "Started"), "controller"),
                          "GetCssRequest"), "GetMonacoThemeRequest")
    IN  [sent EXCEPT !.timer = TRUE]

\* MainStateController.constructor with skipDefault, the statements on the post
\* office and the timer: setTimeout(() => this.setState(newState), 10)
constructor(po, testMode) ==
    LET loading == IF testMode THEN po ELSE initializeTokenizer(po)
        sent == send(send(send(addHandler(loading, "controller"), "Started"),
                          "GetCssRequest"), "GetMonacoThemeRequest")
    IN  [sent EXCEPT !.timer = TRUE]

\* MainStateController.dispose
dispose(po) == [removeHandler(po, "controller") EXCEPT !.log = Append(@, "dispose")]

----------------------------------------------------------------------------
(* Inputs *)

CellIds == {"c1", "c2"}

\* a cell as the extension host sends it
Cell(id, line, type, count) ==
    [id |-> id, file |-> "a.py", line |-> line, cell_type |-> type,
     state |-> IF count = 0 THEN "executing" ELSE "finished",
     execution_count |-> count,
     source |-> IF id = "c1" THEN <<"x", NL, "y">> ELSE <<"z">>]

PayloadCells ==
    {Cell("c1", line, "code", n) : line \in {0, 1}, n \in 0..MaxCount}
    \cup {Cell("c2", 0, type, 0) : type \in {"code", "messages"}}
    \cup {[Cell("c2", 0, "code", 0) EXCEPT !.file = "b.py"]}

\* the cells of a LoadAllCells message
LoadCells == {Cell("c1", 0, "code", 0), Cell("c1", 1, "code", 0), Cell("c2", 0, "code", 0)}

\* the text submitted from the edit cell
Codes == {<<"x">>, MarkdownMarker \o <<NL, "t">>}

SettingsSet == [showCellInputCode : BOOLEAN, collapseCellInputCodeByDefault : BOOLEAN]

\* the native editor constructs its controller with defaultEditable, the interactive
\* window without
PropsSet ==
    {p \in [testMode : BOOLEAN, defaultEditable : BOOLEAN, native : BOOLEAN] :
        p.defaultEditable = p.native}

\* sequences of at most n different elements of S
RECURSIVE distinctSeqs(_, _)
distinctSeqs(S, n) ==
    IF n = 0 THEN {<<>>}
    ELSE LET shorter == distinctSeqs(S, n - 1)
         IN  shorter \cup {Append(q, x) : q \in {r \in shorter : Len(r) = n - 1},
                                          x \in S}

cellKey(c) == <<c.id, c.line, c.file>>

LoadPayloads(cells) ==
    {[cells |-> q] : q \in {r \in distinctSeqs(cells, MaxLoad) :
        \A i, j \in 1..Len(r) : i # j => cellKey(r[i]) # cellKey(r[j])}}

\* the payloads a message type arrives with
payloadsOf(msg, cells) ==
    CASE msg \in {"StartCell", "FinishCell", "UpdateCell"} -> cells \cup {NoPayload}
      [] msg = "LoadAllCells" -> LoadPayloads(cells \cap LoadCells) \cup {NoPayload}
      [] msg = "UpdateSettings" -> SettingsSet \cup {NoPayload}
      [] OTHER -> {NoPayload}

----------------------------------------------------------------------------
(* State machine *)

NoPrior == [none |-> TRUE]

initialState ==
    [cellVMs |-> <<>>, undoStack |-> <<>>, redoStack |-> <<>>,
     currentExecutionCount |-> 0, busy |-> FALSE, dirty |-> FALSE, debugging |-> FALSE,
     skipNextScroll |-> FALSE, submittedText |-> FALSE,
     variables |-> <<>>, pendingVariableCount |-> 0,
     selectedCell |-> NoCellId, focusedCell |-> NoCellId]

\* the IpynbEditor after construction: no file, no load() called, nothing posted
initialEditor ==
    [file |-> <<>>, title |-> "", calls |-> <<>>, channel |-> <<>>, sent |-> <<>>,
     submits |-> <<>>, shared |-> <<>>]

InitWith(P, S) ==
    /\ state = initialState
    /\ editor = initialEditor
    /\ monacoIdToCellId = <<>>
    /\ props \in P
    /\ postOffice = firstUpdate(constructor(newPostOffice, props.testMode))
    /\ steps = 0
    /\ posted = <<>>
    /\ result = "none"
    /\ settings \in S
    /\ last = [op |-> "init", msg |-> "", arg |-> NoPayload, before |-> initialState,
               threw |-> FALSE, prior |-> NoPrior]

\* a run calls at most b handlers
ready(b) == steps < b

enter(sync) ==
    [st |-> state, pend |-> <<>>, out |-> <<>>, thrown |-> FALSE, sync |-> sync, ret |-> "none"]

RECURSIVE runCallbacks(_, _)
\* the host runs the callbacks in order: this.state = { ...this.state, ...newState }
runCallbacks(st, pend) ==
    IF pend = <<>> THEN st ELSE runCallbacks(merge(st, Head(pend)), Tail(pend))

\* what the last handler was, for the handlers that undo, redo, repeat or follow it
priorOf(op, msg) ==
    IF op \in {"undo", "redo", "inputBlockToggled", "codeLostFocus"}
       \/ (op = "handleMessage" /\ msg \in {"Undo", "Redo"})
    THEN [op |-> last.op, msg |-> last.msg, arg |-> last.arg, before |-> last.before,
          threw |-> last.threw]
    ELSE NoPrior

leave(b, ctx, op, msg, arg) ==
    /\ state' = runCallbacks(ctx.st, ctx.pend)
    /\ steps' = IF b = 0 THEN steps ELSE steps + 1
    /\ posted' = ctx.out
    /\ result' = IF op = "handleMessage" THEN ctx.ret ELSE "none"
    /\ last' = [op |-> op, msg |-> msg, arg |-> arg, before |-> state,
                threw |-> ctx.thrown, prior |-> priorOf(op, msg)]

\* a message from the extension host is dispatched to handleMessage
HandleMessage(b, msgs, cells) ==
    /\ ready(b)
    /\ \E msg \in msgs, sync \in BOOLEAN :
         \E payload \in payloadsOf(msg, cells) :
            /\ leave(b, handleMessage(enter(sync), msg, payload), "handleMessage", msg, payload)
            /\ settings' = IF msg = "UpdateSettings" /\ payload # NoPayload THEN payload ELSE settings
    /\ UNCHANGED <<props, editor, monacoIdToCellId, postOffice>>

Undo(b) ==
    /\ ready(b)
    /\ \E sync \in BOOLEAN : leave(b, undo(enter(sync)), "undo", "", NoPayload)
    /\ UNCHANGED <<props, settings, editor, monacoIdToCellId, postOffice>>

Redo(b) ==
    /\ ready(b)
    /\ \E sync \in BOOLEAN : leave(b, redo(enter(sync)), "redo", "", NoPayload)
    /\ UNCHANGED <<props, settings, editor, monacoIdToCellId, postOffice>>

DeleteCell(b, ids) ==
    /\ ready(b)
    /\ \E sync \in BOOLEAN, cellId \in ids :
         leave(b, deleteCell(enter(sync), cellId), "deleteCell", "", [id |-> cellId])
    /\ UNCHANGED <<props, settings, editor, monacoIdToCellId, postOffice>>

ClearAll(b) ==
    /\ ready(b)
    /\ \E sync \in BOOLEAN : leave(b, clearAll(enter(sync)), "clearAll", "", NoPayload)
    /\ UNCHANGED <<props, settings, editor, monacoIdToCellId, postOffice>>

ExpandAll(b) ==
    /\ ready(b)
    /\ \E sync \in BOOLEAN : leave(b, expandAll(enter(sync)), "expandAll", "", NoPayload)
    /\ UNCHANGED <<props, settings, editor, monacoIdToCellId, postOffice>>

CollapseAll(b) ==
    /\ ready(b)
    /\ \E sync \in BOOLEAN : leave(b, collapseAll(enter(sync)), "collapseAll", "", NoPayload)
    /\ UNCHANGED <<props, settings, editor, monacoIdToCellId, postOffice>>

\* the view-models submitInput is called with: the edit cell, and in the native
\* editor any cell of the list
inputCells ==
    {editCellVM} \cup
    (IF props.native /\ state.cellVMs # Undefined
     THEN {state.cellVMs[i] : i \in 1..Len(state.cellVMs)} ELSE {})

SubmitInput(b, codes) ==
    /\ ready(b)
    /\ \E sync \in BOOLEAN, code \in codes, inputCell \in inputCells :
         leave(b, submitInput(enter(sync), code, inputCell), "submitInput", "",
               [code |-> code, inputCell |-> inputCell])
    /\ UNCHANGED <<props, settings, editor, monacoIdToCellId, postOffice>>

\* every message type: the known ones, the two of the native editor, and one no case names
AllMessages == KnownMessages \cup {"NotebookDirty", "NotebookClean", "Interrupt"}

\* the settings a controller starts with; an UpdateSettings message replaces them
DefaultSettings == [showCellInputCode |-> TRUE, collapseCellInputCodeByDefault |-> TRUE]

Init == InitWith(PropsSet, {DefaultSettings})

Next ==
    \/ HandleMessage(MaxSteps, AllMessages, PayloadCells)
    \/ Undo(MaxSteps)
    \/ Redo(MaxSteps)
    \/ DeleteCell(MaxSteps, CellIds)
    \/ ClearAll(MaxSteps)
    \/ ExpandAll(MaxSteps)
    \/ CollapseAll(MaxSteps)
    \/ SubmitInput(MaxSteps, Codes)

Spec == Init /\ [][Next]_vars

(* The history operations, from every length of the undo stack: a run starts
   with any number of clearAll() calls, each of which pushes one snapshot *)

StackCells == {Cell("c1", 0, "code", 0)}

InitStack ==
    InitWith({[testMode |-> FALSE, defaultEditable |-> FALSE, native |-> FALSE]},
             {DefaultSettings})

FillStack ==
    /\ steps = 0
    /\ \E sync \in BOOLEAN :
         leave(0, clearAll(enter(sync)), "clearAll", "", NoPayload)
    /\ UNCHANGED <<props, settings, editor, monacoIdToCellId, postOffice>>

NextStack ==
    \/ FillStack
    \/ HandleMessage(MaxStackSteps, {"StartCell", "FinishCell", "DeleteAllCells", "Undo", "Redo"}, StackCells)
    \/ Undo(MaxStackSteps)
    \/ Redo(MaxStackSteps)
    \/ DeleteCell(MaxStackSteps, {"c1"})
    \/ ClearAll(MaxStackSteps)
    \/ SubmitInput(MaxStackSteps, {<<"x">>})

SpecStack == InitStack /\ [][NextStack]_vars

(* Cell updates between the history operations: a notebook is loaded, cells are
   updated, and the user undoes and redoes *)

\* the handler calls of a run of SpecHistory
MaxHistorySteps == 3

HistoryCells == {Cell("c1", 0, "code", 0), Cell("c1", 0, "code", 1), Cell("c2", 0, "code", 0)}

\* a LoadAllCells message with any of the cells, executed or not
LoadAllCells(b, cells) ==
    /\ ready(b)
    /\ \E sync \in BOOLEAN, payload \in LoadPayloads(cells) :
         leave(b, handleMessage(enter(sync), "LoadAllCells", payload), "handleMessage",
               "LoadAllCells", payload)
    /\ UNCHANGED <<props, settings, editor, monacoIdToCellId, postOffice>>

NextHistory ==
    \/ LoadAllCells(MaxHistorySteps, HistoryCells)
    \/ HandleMessage(MaxHistorySteps, {"UpdateCell", "FinishCell", "RestartKernel"}, HistoryCells)
    \/ Undo(MaxHistorySteps)
    \/ Redo(MaxHistorySteps)
    \/ DeleteCell(MaxHistorySteps, CellIds)

SpecHistory == InitStack /\ [][NextHistory]_vars

(* The variable explorer: the extension host answers GetVariablesRequest with a
   GetVariablesResponse and each GetVariableValueRequest with a
   GetVariableValueResponse, in any order, late or more than once, while cells
   run and the kernel restarts *)

\* the handler calls of a run of SpecVariables
MaxVariableSteps == 3

\* an IJupyterVariable; executionCount is <<>> when undefined and <<n>> otherwise
Variable(name, value, executionCount) ==
    [name |-> name, value |-> value, executionCount |-> executionCount]

ExecutionCounts == {<<>>, <<0>>, <<1>>}

\* the lists of a response: variables whose values are not fetched yet
VariableLists(executionCount) ==
    {<<>>,
     <<Variable("a", "", executionCount)>>,
     <<Variable("a", "", executionCount), Variable("b", "", executionCount)>>}

\* the IJupyterVariablesResponse payloads
VariablesResponses ==
    UNION {{[executionCount |-> c, variables |-> l] : l \in VariableLists(c)} :
           c \in ExecutionCounts}

\* the IJupyterVariable payloads of a value response; "c" is never listed
VariableValues == {Variable(n, "v", c) : n \in {"a", "b", "c"}, c \in ExecutionCounts}

VariableCells == {Cell("c1", 0, "code", 1)}

GetVariablesResponse(b) ==
    /\ ready(b)
    /\ \E sync \in BOOLEAN, payload \in VariablesResponses \cup {NoPayload} :
         leave(b, handleMessage(enter(sync), "GetVariablesResponse", payload), "handleMessage",
               "GetVariablesResponse", payload)
    /\ UNCHANGED <<props, settings, editor, monacoIdToCellId, postOffice>>

GetVariableValueResponse(b) ==
    /\ ready(b)
    /\ \E sync \in BOOLEAN, payload \in VariableValues \cup {NoPayload} :
         leave(b, handleMessage(enter(sync), "GetVariableValueResponse", payload),
               "handleMessage", "GetVariableValueResponse", payload)
    /\ UNCHANGED <<props, settings, editor, monacoIdToCellId, postOffice>>

InitVariables ==
    InitWith({[testMode |-> FALSE, defaultEditable |-> FALSE, native |-> n] : n \in BOOLEAN},
             {DefaultSettings})

NextVariables ==
    \/ GetVariablesResponse(MaxVariableSteps)
    \/ GetVariableValueResponse(MaxVariableSteps)
    \/ HandleMessage(MaxVariableSteps, {"StartCell", "RestartKernel"}, VariableCells)

SpecVariables == InitVariables /\ [][NextVariables]_vars

(* The input blocks: cells of several input texts are added and updated, the
   user toggles the input block of a cell, and everything is expanded or
   collapsed, under every setting of showCellInputCode and
   collapseCellInputCodeByDefault that an UpdateSettings message brings *)

\* the handler calls of a run of SpecInput
MaxInputSteps == 4

\* a first line longer than the limit of a collapsed input block
LongLine ==
    LET x4 == <<"x", "x", "x", "x">>
        x16 == x4 \o x4 \o x4 \o x4
        x64 == x16 \o x16 \o x16 \o x16
    IN  x64 \o x64 \o x64 \o x64 \o <<"x">>

\* input texts: none, two lines, a long first line, an empty first line
InputSources == {<<>>, <<"x", NL, "y">>, LongLine \o <<NL, "y">>, <<NL, "y">>}

InputCells ==
    {[Cell("c1", 0, "code", 0) EXCEPT !.source = t] : t \in InputSources}
    \cup {Cell("c2", 0, "messages", 0)}

\* the ids the user toggles: the cells of the list and one that never is
ToggleIds == {"c1", "c2", "c3"}

InputBlockToggled(b, ids) ==
    /\ ready(b)
    /\ \E sync \in BOOLEAN, id \in ids :
         leave(b, inputBlockToggled(enter(sync), id), "inputBlockToggled", "", [id |-> id])
    /\ UNCHANGED <<props, settings, editor, monacoIdToCellId, postOffice>>

InitInput ==
    InitWith({[testMode |-> FALSE, defaultEditable |-> FALSE, native |-> FALSE]},
             {DefaultSettings})

NextInput ==
    \/ HandleMessage(MaxInputSteps, {"StartCell", "ExpandAll", "CollapseAll", "UpdateSettings"},
                     InputCells)
    \/ InputBlockToggled(MaxInputSteps, ToggleIds)
    \/ ExpandAll(MaxInputSteps)
    \/ CollapseAll(MaxInputSteps)

SpecInput == InitInput /\ [][NextInput]_vars

(* The code editors of the cells: the editors report the models they create and
   the edits made in them, and the focus moves between the cells *)

\* the handler calls of a run of SpecCode
MaxCodeSteps == 3

\* the monaco models the editors report; "m3" is never reported
ModelIds == {"m1", "m2"}

Changes == <<"change">>

\* last.arg of these calls keeps the map the call started with
CodeChange(b) ==
    /\ ready(b)
    /\ \E id \in CellIds, modelId \in ModelIds :
         /\ leave(b, codeChange(enter(TRUE), Changes, id, modelId), "codeChange", "",
                  [id |-> id, modelId |-> modelId, map |-> monacoIdToCellId])
         /\ monacoIdToCellId' = codeChangeMap(monacoIdToCellId, id, modelId)
    /\ UNCHANGED <<props, settings, editor, postOffice>>

ReadOnlyCodeCreated(b) ==
    /\ ready(b)
    /\ \E id \in CellIds, monacoId \in ModelIds :
         LET ctx == readOnlyCodeCreated(enter(TRUE), "a.py", id, monacoId)
         IN  /\ leave(b, ctx, "readOnlyCodeCreated", "",
                      [id |-> id, modelId |-> monacoId, map |-> monacoIdToCellId])
             /\ monacoIdToCellId' = readOnlyCodeCreatedMap(monacoIdToCellId, ctx, id, monacoId)
    /\ UNCHANGED <<props, settings, editor, postOffice>>

EditableCodeCreated(b) ==
    /\ ready(b)
    /\ \E id \in CellIds, monacoId \in ModelIds :
         /\ leave(b, enter(TRUE), "editableCodeCreated", "",
                  [id |-> id, modelId |-> monacoId, map |-> monacoIdToCellId])
         /\ monacoIdToCellId' = editableCodeCreated(monacoIdToCellId, id, monacoId)
    /\ UNCHANGED <<props, settings, editor, postOffice>>

CodeGotFocus(b) ==
    /\ ready(b)
    /\ \E sync \in BOOLEAN, cellId \in CellIds \cup {NoCellId} :
         leave(b, codeGotFocus(enter(sync), cellId), "codeGotFocus", "", [id |-> cellId])
    /\ UNCHANGED <<props, settings, editor, monacoIdToCellId, postOffice>>

CodeLostFocus(b) ==
    /\ ready(b)
    /\ \E sync \in BOOLEAN, cellId \in CellIds :
         leave(b, codeLostFocus(enter(sync), cellId), "codeLostFocus", "", [id |-> cellId])
    /\ UNCHANGED <<props, settings, editor, monacoIdToCellId, postOffice>>

SelectCell(b) ==
    /\ ready(b)
    /\ \E sync \in BOOLEAN, cellId \in CellIds, focusedCell \in CellIds \cup {NoCellId} :
         leave(b, selectCell(enter(sync), cellId, focusedCell), "selectCell", "",
               [id |-> cellId, focusedCell |-> focusedCell])
    /\ UNCHANGED <<props, settings, editor, monacoIdToCellId, postOffice>>

NextCode ==
    \/ CodeChange(MaxCodeSteps)
    \/ ReadOnlyCodeCreated(MaxCodeSteps)
    \/ EditableCodeCreated(MaxCodeSteps)
    \/ CodeGotFocus(MaxCodeSteps)
    \/ CodeLostFocus(MaxCodeSteps)
    \/ SelectCell(MaxCodeSteps)
    \/ HandleMessage(MaxCodeSteps, {"StartCell"}, StackCells)
    \/ Undo(MaxCodeSteps)

SpecCode == InitStack /\ [][NextCode]_vars

----------------------------------------------------------------------------
(* The life of a controller: a run starts when the constructor has returned, with
   the timer of the first update pending; the post office dispatches messages to
   the controller while it is a handler, the timer fires, the owner disposes *)

MaxLifeSteps == 3

\* the timer of the constructor fires: this.setState(newState), with the state
\* the constructor cloned
FirstUpdate ==
    /\ postOffice.timer
    /\ \E sync \in BOOLEAN :
         leave(0, setState(enter(sync), initialState), "firstUpdate", "", NoPayload)
    /\ postOffice' = firstUpdate(postOffice)
    /\ UNCHANGED <<props, settings, editor, monacoIdToCellId>>

Dispose(b) ==
    /\ ready(b)
    /\ leave(b, enter(TRUE), "dispose", "", NoPayload)
    /\ postOffice' = dispose(postOffice)
    /\ UNCHANGED <<props, settings, editor, monacoIdToCellId>>

\* the post office hands a message to the handlers it holds
Dispatch(b) ==
    /\ "controller" \in postOffice.handlers
    /\ HandleMessage(b, {"StartCell", "DeleteAllCells", "Undo"}, StackCells)

InitLifecycle ==
    /\ state = initialState
    /\ editor = initialEditor
    /\ monacoIdToCellId = <<>>
    /\ props \in PropsSet
    /\ postOffice = constructor(newPostOffice, props.testMode)
    /\ steps = 0
    /\ posted = <<>>
    /\ result = "none"
    /\ settings = DefaultSettings
    /\ last = [op |-> "constructor", msg |-> "", arg |-> NoPayload, before |-> initialState,
               threw |-> FALSE, prior |-> NoPrior]

NextLifecycle == FirstUpdate \/ Dispose(MaxLifeSteps) \/ Dispatch(MaxLifeSteps)

SpecLifecycle == InitLifecycle /\ [][NextLifecycle]_vars

----------------------------------------------------------------------------
(* The notebook editor of the extension host: IpynbEditor.load, and the webview
   of the native editor that receives what it posts *)

\* the load() calls of a run
MaxCalls == 2

\* what importCells has answered: nothing yet, a failure, or [cells |-> ...]
NotYet == [pending |-> TRUE]
Failure == [failed |-> TRUE]
NoMessage == [nothing |-> TRUE]

\* the notebooks load() is called with, and the cells each holds
Contents == {"nb0", "nb1", "nb2"}
cellsIn(content) ==
    CASE content = "nb0" -> <<>>
      [] content = "nb1" -> <<Cell("c1", 0, "code", 0)>>
      [] content = "nb2" -> <<Cell("c1", 0, "code", 0), Cell("c2", 0, "code", 0)>>

\* file paths, as their segments
Files == {<<"d", "a.ipynb">>, <<"d", "b.ipynb">>}
basename(file) == Last(file)

\* InteractiveBase.postMessage: the message goes to the webview
postMessage(ed, type, payload) ==
    LET m == [type |-> type, payload |-> payload]
    IN  [ed EXCEPT !.channel = Append(@, m), !.sent = Append(@, m)]

\* IpynbEditor.load up to its await
loadCall(ed, content, file) ==
    [ed EXCEPT !.file = file,
               !.title = basename(file),
               !.calls = Append(@, [content |-> content, file |-> file, pc |-> "importCells",
                                    imported |-> NotYet, posted |-> NoMessage])]

\* load that posts whatever the import has answered
loadContinueAlways(ed, i) ==
    LET call == ed.calls[i]
        cells == IF call.imported = Failure THEN <<>> ELSE call.imported.cells
        ed1 == postMessage(ed, "LoadAllCells", [cells |-> cells])
    IN  [ed1 EXCEPT !.calls[i].pc = "resolved", !.calls[i].posted = Last(ed1.sent)]

\* IpynbEditor.load after its await: a failed import rejects load, the cells of a
\* successful one are posted
loadContinue(ed, i) ==
    LET call == ed.calls[i]
    IN  IF call.imported = Failure
        THEN [ed EXCEPT !.calls[i].pc = "rejected"]
        ELSE LET ed1 == postMessage(ed, "LoadAllCells", [cells |-> call.imported.cells])
             IN  [ed1 EXCEPT !.calls[i].pc = "resolved", !.calls[i].posted = Last(ed1.sent)]

frame ==
    UNCHANGED <<state, steps, posted, result, props, settings, monacoIdToCellId, postOffice, last>>

Load ==
    /\ Len(editor.calls) < MaxCalls
    /\ \E content \in Contents, file \in Files : editor' = loadCall(editor, content, file)
    /\ frame

\* the importer answers a call of importCells
ImportCells ==
    /\ \E i \in 1..Len(editor.calls) :
         /\ editor.calls[i].pc = "importCells"
         /\ editor.calls[i].imported = NotYet
         /\ \E answer \in {Failure, [cells |-> cellsIn(editor.calls[i].content)]} :
               editor' = [editor EXCEPT !.calls[i].imported = answer]
    /\ frame

LoadContinue ==
    /\ \E i \in 1..Len(editor.calls) :
         /\ editor.calls[i].pc = "importCells"
         /\ editor.calls[i].imported # NotYet
         /\ editor' = loadContinue(editor, i)
    /\ frame

\* the webview receives the oldest message the editor has posted
Deliver ==
    /\ editor.channel # <<>>
    /\ \E sync \in BOOLEAN :
         LET m == Head(editor.channel)
         IN  leave(0, handleMessage(enter(sync), m.type, m.payload), "handleMessage",
                   m.type, m.payload)
    /\ editor' = [editor EXCEPT !.channel = Tail(@)]
    /\ UNCHANGED <<props, settings, monacoIdToCellId, postOffice>>

\* the submitNewCell calls of a run
MaxSubmits == 3

EmptyFileName == "Identifiers.EmptyFileName"
EditorId == "editor"

\* the payloads of SubmitNewCell: none, an empty code, an empty id, both given
Infos ==
    {NoPayload, [code |-> <<>>, id |-> "c1"], [code |-> <<"x">>, id |-> ""],
     [code |-> <<"x">>, id |-> "c1"]}

\* Promise.ignoreErrors: a rejection is caught and dropped
ignoreErrors(outcome) == IF outcome = "rejected" THEN "ignored" ELSE outcome

\* InteractiveBase.shareMessage
shareMessage(ed, type, payload) ==
    [ed EXCEPT !.shared = Append(@, [type |-> type, payload |-> payload])]

\* IpynbEditor.submitNewCell: the synchronous part. submitted holds the arguments
\* of the submitCode call, running and show the promises of submitCode and of
\* editorProvider.show(...).then(...)
submitNewCell(ed, info) ==
    IF info # NoPayload /\ info.code # <<>> /\ info.id # ""
    THEN [ed EXCEPT !.submits =
            Append(@, [info |-> info,
                       submitted |-> <<[code |-> info.code, file |-> EmptyFileName,
                                        line |-> 0, id |-> info.id]>>,
                       running |-> "pending", shown |-> <<ed.file>>, show |-> "pending",
                       share |-> NoMessage])]
    ELSE [ed EXCEPT !.submits =
            Append(@, [info |-> info, submitted |-> <<>>, running |-> "none",
                       shown |-> <<>>, show |-> "none", share |-> NoMessage])]

\* submitCode(...).ignoreErrors() when the execution has ended
submitCodeSettled(ed, i, outcome) == [ed EXCEPT !.submits[i].running = ignoreErrors(outcome)]

\* an editor that shares the code whether or not the other side has been shown
showSettledAlways(ed, i, outcome) ==
    LET info == ed.submits[i].info
        ed1 == shareMessage(ed, "RemoteAddCode",
                            [code |-> info.code, file |-> EmptyFileName, line |-> 0,
                             id |-> info.id, originator |-> EditorId, debug |-> FALSE])
    IN  [ed1 EXCEPT !.submits[i].show = ignoreErrors(outcome),
                    !.submits[i].share = Last(ed1.shared)]

\* editorProvider.show(this.file).then(_v => this.shareMessage(...)).ignoreErrors()
\* when show has ended
showSettled(ed, i, outcome) ==
    IF outcome = "resolved"
    THEN LET info == ed.submits[i].info
             ed1 == shareMessage(ed, "RemoteAddCode",
                                 [code |-> info.code, file |-> EmptyFileName, line |-> 0,
                                  id |-> info.id, originator |-> EditorId, debug |-> FALSE])
         IN  [ed1 EXCEPT !.submits[i].show = "resolved",
                         !.submits[i].share = Last(ed1.shared)]
    ELSE [ed EXCEPT !.submits[i].show = ignoreErrors(outcome)]

\* the webview has sent SubmitNewCell
SubmitNewCell ==
    /\ Len(editor.submits) < MaxSubmits
    /\ \E info \in Infos : editor' = submitNewCell(editor, info)
    /\ frame

\* the execution of a submitted cell ends or fails
SubmitCodeSettles ==
    /\ \E i \in 1..Len(editor.submits), outcome \in {"resolved", "rejected"} :
         /\ editor.submits[i].running = "pending"
         /\ editor' = submitCodeSettled(editor, i, outcome)
    /\ frame

\* the editor provider has shown the file, or has failed to
ShowSettles ==
    /\ \E i \in 1..Len(editor.submits), outcome \in {"resolved", "rejected"} :
         /\ editor.submits[i].show = "pending"
         /\ editor' = showSettled(editor, i, outcome)
    /\ frame

InitEditor ==
    InitWith({[testMode |-> FALSE, defaultEditable |-> TRUE, native |-> TRUE]},
             {DefaultSettings})

NextEditor == Load \/ ImportCells \/ LoadContinue \/ Deliver

SpecEditor == InitEditor /\ [][NextEditor]_vars

NextSubmit == SubmitNewCell \/ SubmitCodeSettles \/ ShowSettles

SpecSubmit == InitEditor /\ [][NextSubmit]_vars

----------------------------------------------------------------------------
(* Properties *)

undoCalled(l) == l.op = "undo" \/ (l.op = "handleMessage" /\ l.msg = "Undo")
redoCalled(l) == l.op = "redo" \/ (l.op = "handleMessage" /\ l.msg = "Redo")

\* a cell with this id is in the list
hasCell(cellVMs, id) ==
    cellVMs # Undefined /\ \E i \in 1..Len(cellVMs) : cellVMs[i].cell.id = id

\* the places of the list that hold `cell`: the same id, line and file
placesOf(cellVMs, cell) ==
    IF cellVMs = Undefined THEN {}
    ELSE {i \in 1..Len(cellVMs) : cellKey(cellVMs[i].cell) = cellKey(cell)}

\* C1: undo() and then redo(), called in a state whose undo stack is not empty,
\* leave cellVMs and undoStack as they were before the undo().
C1_UndoRedoRoundTrip ==
    (/\ redoCalled(last)
     /\ last.prior # NoPrior
     /\ undoCalled(last.prior)
     /\ Len(last.prior.before.undoStack) > 0)
    => /\ state.cellVMs = last.prior.before.cellVMs
       /\ state.undoStack = last.prior.before.undoStack

\* undo() and redo() have run from a full undo stack and a list with a cell
C1_Witness ==
    /\ redoCalled(last)
    /\ last.prior # NoPrior
    /\ undoCalled(last.prior)
    /\ Len(last.prior.before.undoStack) = stackLimit + 1
    /\ last.prior.before.cellVMs # Undefined
    /\ Len(last.prior.before.cellVMs) > 0
    /\ state.cellVMs = last.prior.before.cellVMs

\* the handler p changed the list and pushed the list it found: it added a new cell
\* (StartCell, FinishCell), deleted a present cell, cleared the list or took the
\* input of the edit cell
pushedSnapshot(p) ==
    \/ p.op = "clearAll"
    \/ p.op = "handleMessage" /\ p.msg = "DeleteAllCells"
    \/ /\ p.op = "handleMessage"
       /\ p.msg \in {"StartCell", "FinishCell"}
       /\ p.arg # NoPayload
       /\ isCellSupported(p.arg)
       /\ p.before.cellVMs # Undefined
       /\ placesOf(p.before.cellVMs, p.arg) = {}
    \/ p.op = "deleteCell" /\ hasCell(p.before.cellVMs, p.arg.id)
    \/ /\ p.op = "submitInput"
       /\ p.arg.inputCell.cell.id = EditCellId
       /\ p.before.cellVMs # Undefined

\* C2: undo() right after an operation that added a cell, deleted a cell, cleared
\* the list or submitted the edit cell's input sets cellVMs to the list that
\* operation found, whatever the length of the undo stack was.
C2_UndoRestoresPreviousList ==
    (undoCalled(last) /\ last.prior # NoPrior /\ pushedSnapshot(last.prior))
    => state.cellVMs = last.prior.before.cellVMs

\* a present cell was deleted while the undo stack was full, and undo() has run
C2_Witness ==
    /\ undoCalled(last)
    /\ last.prior # NoPrior
    /\ last.prior.op = "deleteCell"
    /\ hasCell(last.prior.before.cellVMs, last.prior.arg.id)
    /\ Len(last.prior.before.undoStack) = stackLimit + 1
    /\ state.cellVMs = last.prior.before.cellVMs

\* C3: cellVMs is never undefined; undo() with an empty undo stack and redo() with
\* an empty redo stack leave cellVMs, undoStack and redoStack as they are.
C3_NeverUndefined ==
    /\ state.cellVMs # Undefined
    /\ (undoCalled(last) /\ Len(last.before.undoStack) = 0)
       => /\ state.cellVMs = last.before.cellVMs
          /\ state.undoStack = last.before.undoStack
          /\ state.redoStack = last.before.redoStack
    /\ (redoCalled(last) /\ Len(last.before.redoStack) = 0)
       => /\ state.cellVMs = last.before.cellVMs
          /\ state.undoStack = last.before.undoStack
          /\ state.redoStack = last.before.redoStack

\* C4: neither stack ever holds more than stackLimit snapshots.
C4_StacksBounded ==
    /\ Len(state.undoStack) <= stackLimit
    /\ Len(state.redoStack) <= stackLimit

cellMessage(l) ==
    /\ l.op = "handleMessage"
    /\ l.msg \in {"StartCell", "FinishCell", "UpdateCell"}
    /\ l.arg # NoPayload

firstPlace(cellVMs, cell) ==
    CHOOSE i \in placesOf(cellVMs, cell) : \A j \in placesOf(cellVMs, cell) : i <= j

\* C6: a StartCell, FinishCell or UpdateCell whose cell matches a cell of the list
\* in id, line and file puts the new cell in the view-model at that place, keeps
\* the length of the list and the order of the ids, and leaves undoStack and
\* redoStack unchanged.
C6_UpdateInPlace ==
    (/\ cellMessage(last)
     /\ isCellSupported(last.arg)
     /\ placesOf(last.before.cellVMs, last.arg) # {})
    => /\ state.cellVMs # Undefined
       /\ Len(state.cellVMs) = Len(last.before.cellVMs)
       /\ state.cellVMs[firstPlace(last.before.cellVMs, last.arg)].cell = last.arg
       /\ \A i \in 1..Len(state.cellVMs) :
             state.cellVMs[i].cell.id = last.before.cellVMs[i].cell.id
       /\ state.undoStack = last.before.undoStack
       /\ state.redoStack = last.before.redoStack

\* C7: a supported cell that matches no cell of the list is appended by StartCell
\* and FinishCell, which push the list they found on the undo stack, and is ignored
\* by UpdateCell; in test mode all three ignore a cell of type 'messages'.
C7_NewCell ==
    cellMessage(last) =>
        IF ~isCellSupported(last.arg) THEN state = last.before
        ELSE placesOf(last.before.cellVMs, last.arg) = {} =>
             IF last.msg = "UpdateCell" THEN state = last.before
             ELSE /\ state.cellVMs # Undefined
                  /\ last.before.cellVMs # Undefined
                  /\ Len(state.cellVMs) = Len(last.before.cellVMs) + 1
                  /\ Front(state.cellVMs) = last.before.cellVMs
                  /\ Last(state.cellVMs).cell = last.arg
                  /\ Len(state.undoStack) > 0
                  /\ Last(state.undoStack) = last.before.cellVMs

\* C8: after LoadAllCells with n distinct supported cells, handled from an empty
\* list, cellVMs holds the n cells in the order of the payload, whenever the host
\* runs the callbacks of setState.
C8_LoadAllCells ==
    (/\ last.op = "handleMessage"
     /\ last.msg = "LoadAllCells"
     /\ last.arg # NoPayload
     /\ \A i \in 1..Len(last.arg.cells) : isCellSupported(last.arg.cells[i])
     /\ last.before.cellVMs = <<>>)
    => /\ state.cellVMs # Undefined
       /\ cellsOf(state.cellVMs) = last.arg.cells

\* the message types the base handler answers with true
HandledMessages ==
    {"StartCell", "FinishCell", "UpdateCell", "GetAllCells", "ExpandAll", "CollapseAll",
     "DeleteAllCells", "Redo", "Undo"}

\* the handler's context in the state st
enterFrom(st, sync) == [enter(sync) EXCEPT !.st = st]

\* C9: handleMessage returns true for the nine message types of HandledMessages
\* and false for every other one, and the native editor's handleMessage returns
\* what the base handler returns.
C9_HandleMessageResult ==
    last.op = "handleMessage" =>
        /\ last.msg \in HandledMessages => result = "true"
        /\ last.msg \notin HandledMessages => result = "false"
        /\ \E sync \in BOOLEAN :
              result = baseHandleMessage(enterFrom(last.before, sync), last.msg, last.arg).ret

\* the message a user-facing method posts
postOf(op) ==
    CASE op = "expandAll" -> "ExpandAll"
      [] op = "collapseAll" -> "CollapseAll"
      [] op = "clearAll" -> "DeleteAllCells"

\* the state the incoming message msg leaves when it is handled in the state st
stateAfterMessage(st, msg) ==
    LET ctx == handleMessage(enterFrom(st, TRUE), msg, NoPayload)
    IN  runCallbacks(ctx.st, ctx.pend)

\* C10: handling an incoming ExpandAll, CollapseAll or DeleteAllCells posts no
\* message of that type; expandAll(), collapseAll() and clearAll() post it once, as
\* the first thing they do, and then change the state as the message does.
C10_SilentMessages ==
    /\ (last.op = "handleMessage" /\ last.msg \in {"ExpandAll", "CollapseAll", "DeleteAllCells"})
       => \A i \in 1..Len(posted) : posted[i].type # last.msg
    /\ last.op \in {"expandAll", "collapseAll", "clearAll"}
       => /\ Len(posted) > 0
          /\ posted[1].type = postOf(last.op)
          /\ Cardinality({i \in 1..Len(posted) : posted[i].type = postOf(last.op)}) = 1
          /\ state = stateAfterMessage(last.before, postOf(last.op))

\* expandAll() has opened a collapsed cell
C10_Witness ==
    /\ last.op = "expandAll"
    /\ state.cellVMs # Undefined
    /\ \E i \in 1..Len(state.cellVMs) :
          /\ ~last.before.cellVMs[i].inputBlockOpen
          /\ state.cellVMs[i].inputBlockOpen
    /\ posted[1].type = "ExpandAll"

\* C11: for a code cell's view-model with inputBlockCollapseNeeded,
\* MainStateController.alterCellVM(vm, visible = true, expanded) returns a
\* view-model with inputBlockShow = true and inputBlockOpen = expanded, also when
\* the input block of vm was hidden.
C11_NewlyVisible ==
    (~props.native /\ state.cellVMs # Undefined) =>
        \A i \in 1..Len(state.cellVMs), expanded \in BOOLEAN :
            LET vm == state.cellVMs[i]
                newVM == baseAlterCellVM(vm, TRUE, expanded, freshOid({vm.oid}))
            IN  (vm.cell.cell_type = "code" /\ vm.inputBlockCollapseNeeded)
                => /\ newVM.inputBlockShow
                   /\ newVM.inputBlockOpen = expanded

loadAllCellsSent == {k \in 1..Len(editor.sent) : editor.sent[k].type = "LoadAllCells"}

\* C12: load() posts LoadAllCells only when importCells has answered with cells,
\* and with those cells as the payload; when the import fails load() rejects and
\* posts nothing.
C12_LoadPostsImportedCells ==
    /\ \A i \in 1..Len(editor.calls) :
          LET call == editor.calls[i]
          IN  /\ call.posted # NoMessage
                 => /\ call.imported \notin {NotYet, Failure}
                    /\ call.posted = [type |-> "LoadAllCells",
                                      payload |-> [cells |-> call.imported.cells]]
              /\ call.imported = Failure
                 => /\ call.posted = NoMessage
                    /\ call.pc \in {"importCells", "rejected"}
              /\ call.pc = "resolved" => call.posted # NoMessage
    /\ Cardinality(loadAllCellsSent) =
           Cardinality({i \in 1..Len(editor.calls) : editor.calls[i].posted # NoMessage})

\* one load() has posted the two cells of its notebook and the webview has them,
\* another one has rejected
C12_Witness ==
    /\ \E i \in 1..Len(editor.calls) :
          /\ editor.calls[i].pc = "resolved"
          /\ Len(editor.calls[i].posted.payload.cells) = 2
    /\ \E i \in 1..Len(editor.calls) : editor.calls[i].pc = "rejected"
    /\ Cardinality(loadAllCellsSent) = 1
    /\ editor.channel = <<>>
    /\ state.cellVMs # Undefined
    /\ Len(state.cellVMs) > 0

\* C13: handling an incoming Undo or Redo message applies the undo or redo to the
\* state and posts no Undo and no Redo message back to the host.
C13_UndoRedoNotPostedBack ==
    (last.op = "handleMessage" /\ last.msg \in {"Undo", "Redo"}) =>
        /\ \A i \in 1..Len(posted) : posted[i].type \notin {"Undo", "Redo"}
        /\ (last.msg = "Undo" /\ Len(last.before.undoStack) > 0)
           => state.cellVMs = Last(last.before.undoStack)
        /\ (last.msg = "Redo" /\ Len(last.before.redoStack) > 0)
           => state.cellVMs = Last(last.before.redoStack)

\* the last n entries of a stack
newest(stack, n) == SubSeq(stack, Len(stack) - n + 1, Len(stack))

\* pushing `cells` on `stack` keeps the most recent history
keepsNewest(stack, cells) ==
    LET pushed == pushStack(stack, cells)
    IN  /\ Last(pushed) = cells
        /\ Front(pushed) = newest(stack, Len(pushed) - 1)

\* C14: pushStack, given a stack of stackLimit or more snapshots, returns a stack
\* that ends with the pushed snapshot, preceded by the most recent snapshots of the
\* stack it was given: what it drops is the oldest.
C14_EvictsOldest ==
    /\ Len(state.undoStack) >= stackLimit => keepsNewest(state.undoStack, state.cellVMs)
    /\ Len(state.redoStack) >= stackLimit => keepsNewest(state.redoStack, state.cellVMs)

\* C15: addCell, deleteCell, clearAll/DeleteAllCells and submitInput leave
\* redoStack unchanged, and so does every operation but undo(), which pushes on
\* it, and redo(), which pops it; redo() after a new edit therefore puts the
\* snapshot on top of that redo stack in cellVMs.
C15_RedoStackFrame ==
    /\ pushedSnapshot(last) => state.redoStack = last.before.redoStack
    /\ (last.op # "init" /\ ~undoCalled(last) /\ ~redoCalled(last))
       => state.redoStack = last.before.redoStack
    /\ undoCalled(last) => /\ Len(state.redoStack) > 0
                           /\ Last(state.redoStack) = last.before.cellVMs
    /\ (redoCalled(last) /\ Len(last.before.redoStack) > 0)
       => state.redoStack = Front(last.before.redoStack)
    /\ (/\ redoCalled(last)
        /\ last.prior # NoPrior
        /\ pushedSnapshot(last.prior)
        /\ Len(last.prior.before.redoStack) > 0)
       => state.cellVMs = Last(last.prior.before.redoStack)

\* what SendInfo says of a state
infoOf(st) ==
    [visibleCells |-> cellsOf(getNonEditCellVMs(st.cellVMs)),
     cellCount |-> Len(getNonEditCellVMs(st.cellVMs)),
     undoCount |-> Len(st.undoStack),
     redoCount |-> Len(st.redoStack)]

\* undo(), redo(), clearAll()/DeleteAllCells, or addCell of a new cell
endsWithSendInfo(l) ==
    \/ undoCalled(l)
    \/ redoCalled(l)
    \/ l.op = "clearAll"
    \/ l.op = "handleMessage" /\ l.msg = "DeleteAllCells"
    \/ /\ cellMessage(l)
       /\ l.msg \in {"StartCell", "FinishCell"}
       /\ isCellSupported(l.arg)
       /\ l.before.cellVMs # Undefined
       /\ placesOf(l.before.cellVMs, l.arg) = {}

\* C16: the SendInfo that undo(), redo(), clearAll/DeleteAllCells and addCell post
\* last describes the state they leave: the cells and the number of non-editable
\* cells of the new cellVMs and the lengths of the new undoStack and redoStack,
\* whenever the host runs the callback of setState.
C16_SendInfoReportsNewState ==
    endsWithSendInfo(last) =>
        /\ posted # <<>>
        /\ Last(posted).type = "SendInfo"
        /\ state.cellVMs # Undefined
        /\ Last(posted).payload = infoOf(state)

\* C17: currentExecutionCount goes down only on RestartKernel, which sets it to 0;
\* an update of a cell of the list sets it to the larger of its value and the
\* cell's execution_count, also for each cell LoadAllCells updates; no other
\* operation changes it.
C17_ExecutionCountMonotone ==
    LET restart == last.op = "handleMessage" /\ last.msg = "RestartKernel"
        load == last.op = "handleMessage" /\ last.msg = "LoadAllCells" /\ last.arg # NoPayload
    IN  /\ restart => state.currentExecutionCount = 0
        /\ ~restart => state.currentExecutionCount >= last.before.currentExecutionCount
        /\ (/\ cellMessage(last)
            /\ isCellSupported(last.arg)
            /\ placesOf(last.before.cellVMs, last.arg) # {})
           => state.currentExecutionCount =
                  Max(last.before.currentExecutionCount, last.arg.execution_count)
        /\ load => \A i \in 1..Len(last.arg.cells) :
                      (/\ isCellSupported(last.arg.cells[i])
                       /\ placesOf(last.before.cellVMs, last.arg.cells[i]) # {})
                      => state.currentExecutionCount >= last.arg.cells[i].execution_count
        /\ (~restart /\ ~cellMessage(last) /\ ~load)
           => state.currentExecutionCount = last.before.currentExecutionCount

variablesRequests == {k \in 1..Len(posted) : posted[k].type = "GetVariablesRequest"}

\* C18: an update of a cell of the list that raises currentExecutionCount posts
\* one GetVariablesRequest, and the request carries the new execution count.
C18_RefreshCarriesNewCount ==
    (/\ cellMessage(last)
     /\ isCellSupported(last.arg)
     /\ placesOf(last.before.cellVMs, last.arg) # {}
     /\ last.arg.execution_count > last.before.currentExecutionCount)
    => /\ state.currentExecutionCount = last.arg.execution_count
       /\ Cardinality(variablesRequests) = 1
       /\ \A k \in variablesRequests : posted[k].payload = [executionCount |-> state.currentExecutionCount]

variablesResponse(l) ==
    l.op = "handleMessage" /\ l.msg = "GetVariablesResponse" /\ l.arg # NoPayload

valueResponse(l) ==
    l.op = "handleMessage" /\ l.msg = "GetVariableValueResponse" /\ l.arg # NoPayload

\* the response is tagged with the execution count the state had when it arrived
matching(l) == l.arg.executionCount = <<l.before.currentExecutionCount>>

namesOf(variables) == [k \in 1..Len(variables) |-> variables[k].name]

listed(variables, name) == \E k \in 1..Len(variables) : variables[k].name = name

variablesKept ==
    /\ state.variables = last.before.variables
    /\ state.pendingVariableCount = last.before.pendingVariableCount

\* C19: a variables response or value response whose executionCount is not the
\* current execution count (an undefined one included), and a value response for
\* a variable that is not in the list, leave variables and pendingVariableCount
\* as they were and post nothing; a variables response with the current count
\* replaces variables, sets pendingVariableCount to their number and posts one
\* GetVariableValueRequest per variable.
C19_StaleResponsesDropped ==
    /\ (variablesResponse(last) /\ ~matching(last)) => (variablesKept /\ posted = <<>>)
    /\ (valueResponse(last) /\ (~matching(last) \/ ~listed(last.before.variables, last.arg.name)))
          => (variablesKept /\ posted = <<>>)
    /\ (variablesResponse(last) /\ matching(last))
          => /\ state.variables = last.arg.variables
             /\ state.pendingVariableCount = Len(last.arg.variables)
             /\ posted = [k \in 1..Len(last.arg.variables) |->
                             [type |-> "GetVariableValueRequest", payload |-> last.arg.variables[k]]]

\* a value response for a listed variable that is still waited for arrives after
\* the execution count has moved on
C19_Witness ==
    /\ valueResponse(last)
    /\ last.arg.executionCount # <<>>
    /\ ~matching(last)
    /\ listed(last.before.variables, last.arg.name)
    /\ last.before.pendingVariableCount > 0

changedEntries(old, new) == {k \in 1..Len(old) : new[k] # old[k]}

\* C20: pendingVariableCount is never negative and never more than the number
\* of variables, whatever order the responses arrive in and however often a
\* value response is repeated; a value response replaces at most one entry, by
\* the variable it carries, and keeps the length and the order of the names.
C20_PendingWithinVariables ==
    /\ 0 <= state.pendingVariableCount
    /\ state.pendingVariableCount <= Len(state.variables)
    /\ valueResponse(last)
          => /\ Len(state.variables) = Len(last.before.variables)
             /\ namesOf(state.variables) = namesOf(last.before.variables)
             /\ Cardinality(changedEntries(last.before.variables, state.variables)) <= 1
             /\ \A k \in changedEntries(last.before.variables, state.variables) :
                    state.variables[k] = last.arg

\* the value of a variable arrives a second time when nothing is waited for
C20_Witness ==
    /\ valueResponse(last)
    /\ matching(last)
    /\ \E k \in 1..Len(last.before.variables) : last.before.variables[k] = last.arg
    /\ last.before.pendingVariableCount = 0
    /\ state.pendingVariableCount = 0

toggled(l) == l.op = "inputBlockToggled"

collapseAllCalled(l) ==
    l.op = "collapseAll" \/ (l.op = "handleMessage" /\ l.msg = "CollapseAll")

expandAllCalled(l) ==
    l.op = "expandAll" \/ (l.op = "handleMessage" /\ l.msg = "ExpandAll")

\* cellVMs.findIndex(value => value.cell.id === id): 0 when there is none
placeOfId(cellVMs, id) ==
    LET places == {i \in 1..Len(cellVMs) : cellVMs[i].cell.id = id}
    IN  IF places = {} THEN 0 ELSE CHOOSE i \in places : \A j \in places : i <= j

\* the places of the old list whose view-model the last call asked to collapse
collapseAsked ==
    {k \in 1..Len(last.before.cellVMs) :
        \/ collapseAllCalled(last) /\ settings.showCellInputCode
        \/ /\ toggled(last)
           /\ k = placeOfId(last.before.cellVMs, last.arg.id)
           /\ last.before.cellVMs[k].inputBlockOpen}

\* the places of the old list whose view-model the last call asked to expand
expandAsked ==
    {k \in 1..Len(last.before.cellVMs) :
        \/ expandAllCalled(last) /\ settings.showCellInputCode
        \/ /\ toggled(last)
           /\ k = placeOfId(last.before.cellVMs, last.arg.id)
           /\ ~last.before.cellVMs[k].inputBlockOpen}

\* a shown code cell whose input needs collapsing
collapsible(vm) ==
    vm.cell.cell_type = "code" /\ vm.inputBlockShow /\ vm.inputBlockCollapseNeeded

cutTo(t, n) == SubSeq(t, 1, Min(Len(t), n))

\* C21: collapsing the open input of a shown code cell that needs collapsing
\* leaves inputBlockText equal to the first line of the input text cut to 255
\* characters and followed by '...', of length 258 at most, and empty when the
\* input text is empty; expanding a collapsed one leaves the full input text.
C21_CollapsedText ==
    /\ \A k \in collapseAsked :
          LET old == last.before.cellVMs[k]
              new == state.cellVMs[k]
              text == extractInputText(old.cell)
          IN  (collapsible(old) /\ old.inputBlockOpen)
                 => /\ ~new.inputBlockOpen
                    /\ Len(new.inputBlockText) <= 258
                    /\ new.inputBlockText =
                          IF text = <<>> THEN <<>>
                          ELSE cutTo(firstLineOf(text), 255) \o <<".", ".", ".">>
    /\ \A k \in expandAsked :
          LET old == last.before.cellVMs[k]
              new == state.cellVMs[k]
          IN  (collapsible(old) /\ ~old.inputBlockOpen)
                 => /\ new.inputBlockOpen
                    /\ new.inputBlockText = extractInputText(old.cell)

\* an input whose first line is longer than the limit has been collapsed
C21_Witness ==
    \E k \in collapseAsked :
        /\ collapsible(last.before.cellVMs[k])
        /\ last.before.cellVMs[k].inputBlockOpen
        /\ Len(firstLineOf(extractInputText(last.before.cellVMs[k].cell))) > 255
        /\ Len(state.cellVMs[k].inputBlockText) = 258

\* the last two calls toggled the input block of the same cell
toggledTwice ==
    /\ toggled(last)
    /\ last.prior # NoPrior
    /\ toggled(last.prior)
    /\ last.prior.arg = last.arg
    /\ placeOfId(last.prior.before.cellVMs, last.arg.id) >= 1

\* the input text shown is the one alterCellVM derives from the cell the
\* view-model holds
derivedText(vm) ==
    vm.inputBlockText =
        IF vm.inputBlockOpen THEN extractInputText(vm.cell) ELSE collapsedText(vm.cell)

toggleFrame ==
    toggled(last)
       => LET old == last.before.cellVMs
              k == placeOfId(old, last.arg.id)
          IN  /\ Len(state.cellVMs) = Len(old)
              /\ \A j \in 1..Len(old) : j # k => state.cellVMs[j] = old[j]
              /\ state.undoStack = last.before.undoStack
              /\ state.redoStack = last.before.redoStack
              /\ k = 0 => state = last.before

modelCall(l) == l.op \in {"codeChange", "readOnlyCodeCreated", "editableCodeCreated"}

\* C24: codeChange(changes, id, modelId) posts EditCell {changes, id} exactly when
\* the model is already mapped to that cell id, and otherwise posts nothing and
\* maps the model to id; after a codeChange, readOnlyCodeCreated or
\* editableCodeCreated for (id, modelId), getCellId(modelId) is id, and
\* getCellId of a model no call has named is the id of the edit cell.
C24_ModelMapping ==
    /\ last.op = "codeChange"
          => IF mapGet(last.arg.map, last.arg.modelId) = <<last.arg.id>>
             THEN /\ posted = <<[type |-> "EditCell",
                                 payload |-> [changes |-> Changes, id |-> last.arg.id]]>>
                  /\ monacoIdToCellId = last.arg.map
             ELSE /\ posted = <<>>
                  /\ monacoIdToCellId = mapSet(last.arg.map, last.arg.modelId, last.arg.id)
    /\ modelCall(last) => getCellId(monacoIdToCellId, last.arg.modelId) = last.arg.id
    /\ getCellId(monacoIdToCellId, "m3") = EditCellId

lostFocus(l) == l.op = "codeLostFocus"

\* the last two calls were codeGotFocus(b) and then codeLostFocus(a), a # b
focusMoved ==
    /\ lostFocus(last)
    /\ last.prior # NoPrior
    /\ last.prior.op = "codeGotFocus"
    /\ last.prior.arg.id # last.arg.id

\* C25: codeLostFocus(a) sets focusedCell to undefined only when focusedCell is
\* a, and never changes selectedCell; after codeGotFocus(b) and then
\* codeLostFocus(a) with a # b, focusedCell and selectedCell are b.
C25_FocusNotCleared ==
    /\ lostFocus(last)
          => /\ state.selectedCell = last.before.selectedCell
             /\ state.focusedCell = IF last.before.focusedCell = last.arg.id
                                    THEN NoCellId ELSE last.before.focusedCell
    /\ focusMoved
          => /\ state.focusedCell = last.prior.arg.id
             /\ state.selectedCell = last.prior.arg.id

\* the focus went from a to b and the editor of a reported the loss afterwards
C25_Witness ==
    /\ focusMoved
    /\ last.prior.before.focusedCell = last.arg.id
    /\ last.prior.arg.id # NoCellId
    /\ state.focusedCell = last.prior.arg.id

\* the last call was submitInput with the view-model of the edit cell
submittedFromEditCell(l) == l.op = "submitInput" /\ l.arg.inputCell.cell.id = EditCellId

\* C26: submitInput with the edit cell appends one view-model at the end of
\* cellVMs, a new object with an id that is not the edit cell's and that no
\* cell had and with directInput set, and pushes the old list on the undo
\* stack; when the first line is not a markdown marker the new cell is executing
\* and SubmitNewCell {code, id} is posted, and otherwise the new cell is a
\* finished markdown cell and nothing is posted.
C26_SubmitFromEditCell ==
    submittedFromEditCell(last)
       => /\ state.cellVMs # Undefined
          /\ Len(state.cellVMs) = Len(last.before.cellVMs) + 1
          /\ Front(state.cellVMs) = last.before.cellVMs
          /\ LET newCell == Last(state.cellVMs)
             IN  /\ newCell.cell.id # EditCellId
                 /\ newCell.cell.id \notin listIds(last.before.cellVMs)
                 /\ newCell.oid # last.arg.inputCell.oid
                 /\ newCell.directInput
                 /\ IF isMarkdown(firstLineOf(last.arg.code))
                    THEN /\ newCell.cell.cell_type = "markdown"
                         /\ newCell.cell.state = "finished"
                         /\ posted = <<>>
                    ELSE /\ newCell.cell.state = "executing"
                         /\ posted = <<[type |-> "SubmitNewCell",
                                        payload |-> [code |-> last.arg.code,
                                                     id |-> newCell.cell.id]]>>
          /\ Len(state.undoStack) > 0
          /\ Last(state.undoStack) = last.before.cellVMs

\* the place of the first entry x of the log, 0 when there is none
placeInLog(x) ==
    LET at == {i \in 1..Len(postOffice.log) : postOffice.log[i] = x}
    IN  IF at = {} THEN 0 ELSE CHOOSE i \in at : \A j \in at : i <= j

\* the entries of the log that are messages sent through the post office
sentPlaces ==
    {i \in 1..Len(postOffice.log) :
        postOffice.log[i] \notin {"addHandler", "removeHandler", "initializeTokenizer",
                                  "setState", "dispose"}}

complete(info) == info # NoPayload /\ info.code # <<>> /\ info.id # ""

\* C28: a submitNewCell call without payload, or with an empty code or id, submits
\* and shows nothing; any other call submits the code under the id, shows the
\* editor's file, and RemoteAddCode with the same code and id, this editor as
\* originator and debug off is shared exactly when show has completed; nothing is
\* shared otherwise, and no failure of the execution or of show is left unhandled.
C28_SubmitNewCell ==
    /\ \A i \in 1..Len(editor.submits) :
          LET call == editor.submits[i]
          IN  /\ ~complete(call.info)
                    => /\ call.submitted = <<>>
                       /\ call.shown = <<>>
                       /\ call.running = "none" /\ call.show = "none"
                       /\ call.share = NoMessage
              /\ complete(call.info)
                    => /\ call.submitted = <<[code |-> call.info.code, file |-> EmptyFileName,
                                              line |-> 0, id |-> call.info.id]>>
                       /\ call.shown = <<editor.file>>
                       /\ call.running \in {"pending", "resolved", "ignored"}
                       /\ call.show \in {"pending", "resolved", "ignored"}
                       /\ call.show = "resolved"
                             <=> call.share = [type |-> "RemoteAddCode",
                                               payload |-> [code |-> call.info.code,
                                                            file |-> EmptyFileName, line |-> 0,
                                                            id |-> call.info.id,
                                                            originator |-> EditorId,
                                                            debug |-> FALSE]]
                       /\ call.show # "resolved" => call.share = NoMessage
    /\ Len(editor.shared) =
          Cardinality({i \in 1..Len(editor.submits) : editor.submits[i].show = "resolved"})

\* one call had an empty id, for one both the execution and show failed, and for
\* one the code was shared
C28_Witness ==
    /\ \E i \in 1..Len(editor.submits) :
          editor.submits[i].info # NoPayload /\ ~complete(editor.submits[i].info)
    /\ \E i \in 1..Len(editor.submits) :
          editor.submits[i].show = "ignored" /\ editor.submits[i].running = "ignored"
    /\ \E i \in 1..Len(editor.submits) :
          editor.submits[i].show = "resolved" /\ editor.submits[i].share # NoMessage

====
